---- MODULE Spec2Model ----
(***************************************************************************)
(* The root-confined filesystem toolbox of ox (src/tools.py): list_dir,    *)
(* read_files, find, grep and tree, with the path resolver and the glob    *)
(* expansion they rest on, run against one fixed filesystem.               *)
(*                                                                         *)
(* Two kinds of text appear.  A short string whose characters decide what  *)
(* the code does (a path argument, a file name, a find pattern) is a       *)
(* sequence of one-character strings.  A Python str that is only built,    *)
(* joined, measured and cut is a sequence of segments, each a piece of     *)
(* text with its length in characters, so that len(), slicing and the      *)
(* 4096-character cap keep their real numbers.                             *)
(***************************************************************************)
EXTENDS Integers, Sequences, FiniteSets, TLC

VARIABLES WORK_DIR, runner_root, ctx, host, call, ret, reads, procs, tool, turn, chat

vars == <<WORK_DIR, runner_root, ctx, host, call, ret, reads, procs, tool, turn, chat>>

\* Longest list of paths handed to read_files and grep.
MaxPaths == 2

-----------------------------------------------------------------------------
(* Characters and names *)

NUL == "NUL"
DOTDOT == <<".", ".">>

\* ord(c), for the characters that occur in names
Code(c) ==
    CASE c = "*" -> 42 [] c = "-" -> 45 [] c = "." -> 46 [] c = "/" -> 47
      [] c = "?" -> 63 [] c = "A" -> 65 [] c = "B" -> 66 [] c = "[" -> 91
      [] c = "a" -> 97 [] c = "b" -> 98 [] c = "c" -> 99 [] c = "d" -> 100
      [] c = "h" -> 104 [] c = "l" -> 108 [] c = "o" -> 111 [] c = "q" -> 113 [] c = "r" -> 114
      [] c = "x" -> 120 [] c = "z" -> 122 [] OTHER -> 0

\* str.lower() on one character
Lower(c) ==
    CASE c = "A" -> "a" [] c = "B" -> "b" [] c = "E" -> "e" [] c = "I" -> "i"
      [] c = "Q" -> "q" [] c = "T" -> "t" [] c = "U" -> "u" [] c = "X" -> "x"
      [] OTHER -> c

LowerAll(s) == [i \in 1..Len(s) |-> Lower(s[i])]

RECURSIVE SeqLess(_, _)
\* a < b for two sequences of numbers, as Python compares strings
SeqLess(a, b) ==
    IF a = <<>> THEN b # <<>>
    ELSE IF b = <<>> THEN FALSE
    ELSE IF a[1] # b[1] THEN a[1] < b[1]
    ELSE SeqLess(Tail(a), Tail(b))

Codes(s) == [i \in 1..Len(s) |-> Code(s[i])]

IsPrefix(a, b) == Len(a) <= Len(b) /\ SubSeq(b, 1, Len(a)) = a

\* the elements of the finite set S as a sequence, ascending by key[x], a sequence
\* of numbers (keys are distinct)
SortByKey(S, key) ==
    [i \in 1..Cardinality(S) |->
       CHOOSE x \in S : Cardinality({ y \in S : SeqLess(key[y], key[x]) }) = i - 1]

RECURSIVE Flatten(_)
Flatten(ss) == IF ss = <<>> THEN <<>> ELSE Head(ss) \o Flatten(Tail(ss))

-----------------------------------------------------------------------------
(* Python str values as sequences of segments *)

Seg(k, s, i, n) == IF n = 0 THEN <<>> ELSE <<[k |-> k, s |-> s, i |-> i, n |-> n]>>

\* a str given character by character
Chr(s) == Seg("chars", s, 0, Len(s))

\* a literal piece of text of n characters
Lit(k, n) == Seg(k, <<>>, 0, n)

NL == Lit("NL", 1)

RECURSIVE StrLen(_)
\* len(x)
StrLen(x) == IF x = <<>> THEN 0 ELSE Head(x).n + StrLen(Tail(x))

RECURSIVE Take(_, _)
\* the first k characters of x, 0 <= k
Take(x, k) ==
    IF k <= 0 \/ x = <<>> THEN <<>>
    ELSE IF Head(x).n <= k THEN <<Head(x)>> \o Take(Tail(x), k - Head(x).n)
    ELSE <<[Head(x) EXCEPT !.n = k]>>

\* x[:k] with Python's reading of a negative k, counted from the end
Slice(x, k) == IF k >= 0 THEN Take(x, k) ELSE Take(x, StrLen(x) + k)

RECURSIVE Join(_, _)
\* sep.join(xs)
Join(sep, xs) ==
    IF xs = <<>> THEN <<>>
    ELSE IF Len(xs) = 1 THEN xs[1]
    ELSE xs[1] \o sep \o Join(sep, Tail(xs))

IsNL(g) == g.k = "NL"

RECURSIVE LStrip(_)
LStrip(x) == IF x # <<>> /\ IsNL(Head(x)) THEN LStrip(Tail(x)) ELSE x

RECURSIVE RStrip(_)
RStrip(x) ==
    IF x # <<>> /\ IsNL(x[Len(x)]) THEN RStrip(SubSeq(x, 1, Len(x) - 1)) ELSE x

\* str.strip(): the texts produced here carry no other white space at their ends
Strip(x) == RStrip(LStrip(x))

EndsWith(x, sfx) ==
    Len(sfx) <= Len(x) /\ SubSeq(x, Len(x) - Len(sfx) + 1, Len(x)) = sfx

\* number of decimal digits of n >= 0
Digits(n) == IF n < 10 THEN 1 ELSE IF n < 100 THEN 2 ELSE IF n < 1000 THEN 3 ELSE 4

-----------------------------------------------------------------------------
(* pathlib *)

RECURSIVE Split(_, _)
\* s.split("/"), cur being the component read so far
Split(s, cur) ==
    IF s = <<>> THEN <<cur>>
    ELSE IF Head(s) = "/" THEN <<cur>> \o Split(Tail(s), <<>>)
    ELSE Split(Tail(s), Append(cur, Head(s)))

\* Path(s): "." and empty components are dropped, ".." is kept
Path(s) ==
    [abs   |-> s # <<>> /\ Head(s) = "/",
     parts |-> SelectSeq(Split(s, <<>>), LAMBDA c : c # <<>> /\ c # <<".">>)]

\* a / b
Div(a, b) == IF b.abs THEN b ELSE [abs |-> a.abs, parts |-> a.parts \o b.parts]

Parent(p) ==
    IF p.parts = <<>> THEN p
    ELSE [p EXCEPT !.parts = SubSeq(p.parts, 1, Len(p.parts) - 1)]

PName(p) == IF p.parts = <<>> THEN <<>> ELSE p.parts[Len(p.parts)]

RECURSIVE JoinChars(_)
JoinChars(parts) ==
    IF parts = <<>> THEN <<>>
    ELSE IF Len(parts) = 1 THEN parts[1]
    ELSE parts[1] \o <<"/">> \o JoinChars(Tail(parts))

\* str(p)
PathStr(p) ==
    IF p.abs THEN <<"/">> \o JoinChars(p.parts)
    ELSE IF p.parts = <<>> THEN <<".">> ELSE JoinChars(p.parts)

\* p.relative_to(root) succeeds: a comparison of components, nothing is resolved
RelativeTo(p, root) == p.abs = root.abs /\ IsPrefix(root.parts, p.parts)

-----------------------------------------------------------------------------
(* The filesystem the tools run against.  The root is /r or /r/d; /o lies  *)
(* outside both and /r/l is a symbolic link to it.  A file is its lines,   *)
(* each with its length and the search patterns that match it.             *)

\* the search patterns handed to grep
PatA == Chr(<<"a">>)
PatDash == Chr(<<"-", "q">>)
PatLong == Lit("a x 5000", 5000)
Patterns == {PatA, PatDash, PatLong}

Ln(n, hits) == [n |-> n, hits |-> hits]

Dir(path) == [path |-> path, kind |-> "dir", target |-> <<>>, utf8 |-> TRUE, lines |-> <<>>]
File(path, utf8, lines) ==
    [path |-> path, kind |-> "file", target |-> <<>>, utf8 |-> utf8, lines |-> lines]
Link(path, target) ==
    [path |-> path, kind |-> "link", target |-> target, utf8 |-> TRUE, lines |-> <<>>]

SevenLines ==
    <<Ln(10, {}), Ln(20, {PatA}), Ln(10, {}), Ln(11, {}), Ln(19, {PatA}), Ln(10, {}),
      Ln(12, {PatDash})>>

Entries ==
    { Dir(<<>>),
      File(<< <<"o">> >>, TRUE, <<Ln(6, {PatA})>>),
      Dir(<< <<"r">> >>),
      Dir(<< <<"r">>, <<"d">> >>),
      File(<< <<"r">>, <<"d">>, <<"B">> >>, TRUE, <<Ln(2, {})>>),
      File(<< <<"r">>, <<"d">>, <<"a", "b">> >>, TRUE, SevenLines),
      Dir(<< <<"r">>, <<"d">>, <<"c">> >>),
      Link(<< <<"r">>, <<"l">> >>, << <<"o">> >>),
      Dir(<< <<"r">>, <<"z">> >>),
      File(<< <<"r">>, <<"z">>, <<".", "h">> >>, TRUE, <<Ln(3, {})>>),
      File(<< <<"r">>, <<"z">>, <<"A", "b">> >>, TRUE,
           <<Ln(8, {}), Ln(5000, {PatA}), Ln(8, {})>>),
      File(<< <<"r">>, <<"z">>, <<"q">> >>, FALSE, <<Ln(4, {})>>),
      Dir(<< <<"r">>, <<"z">>, <<"x">> >>) }

\* the directories that WORK_DIR and the root given to make_runner may name
WorkDirs ==
    { [abs |-> TRUE, parts |-> << <<"r">> >>],
      [abs |-> TRUE, parts |-> << <<"r">>, <<"d">> >>] }

Exists(parts) == \E e \in Entries : e.path = parts
Node(parts) == CHOOSE e \in Entries : e.path = parts
IsLink(parts) == Exists(parts) /\ Node(parts).kind = "link"

RECURSIVE Walk(_, _)
\* os.path.realpath, not strict: cur is resolved, rest is still to be read.  No
\* link of Entries points at a link, so the walk ends.
Walk(cur, rest) ==
    IF rest = <<>> THEN cur
    ELSE LET c == Head(rest)
             nxt == Append(cur, c)
         IN  IF c = DOTDOT
             THEN Walk(IF cur = <<>> THEN cur ELSE SubSeq(cur, 1, Len(cur) - 1), Tail(rest))
             ELSE IF IsLink(nxt) THEN Walk(<<>>, Node(nxt).target \o Tail(rest))
             ELSE Walk(nxt, Tail(rest))

\* p.resolve() of an absolute path
Resolve(p) == [abs |-> TRUE, parts |-> Walk(<<>>, p.parts)]

\* what the operating system finds at p: a node of Entries, or nothing
Stat(p) ==
    LET At(q) == IF Exists(q) THEN Node(q)
                 ELSE [path |-> q, kind |-> "none", target |-> <<>>, utf8 |-> TRUE,
                       lines |-> <<>>]
    IN  At(Walk(<<>>, p.parts))

is_dir(p) == Stat(p).kind = "dir"
is_file(p) == Stat(p).kind = "file"

\* the children of the directory at parts: the names one level below it
Children(parts) == { e \in Entries : Len(e.path) = Len(parts) + 1 /\ IsPrefix(parts, e.path) }

HasNUL(s) == \E i \in 1..Len(s) : s[i] = NUL

-----------------------------------------------------------------------------
(* Results *)

Ok(v) == [ok |-> TRUE, val |-> v]
Raised(v) == [ok |-> FALSE, val |-> v]

ResolvedTo(p) == [ok |-> TRUE, path |-> p, msg |-> <<>>]
ValueError(m) == [ok |-> FALSE, path |-> [abs |-> TRUE, parts |-> <<>>], msg |-> m]

\* _resolve_path with the containment test made on the path as joined, before
\* resolve() has followed its ".." segments and links
ResolvePathUnresolved(path_str, root) ==
    LET Check(joined) ==
            IF RelativeTo(joined, root)
            THEN ResolvedTo(Resolve(joined))
            ELSE ValueError(Lit("Path ", 5) \o Chr(path_str)
                            \o Lit(" is not relative to the root: ", 30)
                            \o Chr(PathStr(root)))
    IN  IF HasNUL(path_str)
        THEN ValueError(Lit("Invalid path: ", 14) \o Chr(path_str))
        ELSE Check(Div(root, Path(path_str)))

\* _resolve_path(path_str, tool_context), root being tool_context.state[CTX_KEY].root
_resolve_path(path_str, root) ==
    LET Check(target) ==
            IF RelativeTo(target, root)
            THEN ResolvedTo(target)
            ELSE ValueError(Lit("Path ", 5) \o Chr(path_str)
                            \o Lit(" is not relative to the root: ", 30)
                            \o Chr(PathStr(root)))
    IN  IF HasNUL(path_str)
        THEN ValueError(Lit("Invalid path: ", 14) \o Chr(path_str))
        ELSE Check(Resolve(Div(root, Path(path_str))))

\* a read of the entry at path (resolved), on behalf of input number i of the call
Read(path, via) == [path |-> path, via |-> via]

\* text of the file node f, line by line, each line ended by a newline
FileText(f) ==
    Flatten([i \in 1..Len(f.lines) |->
               Seg("line", PathStr([abs |-> TRUE, parts |-> f.path]), i, f.lines[i].n) \o NL])

\* _read_file with a second, single-byte decoding of a file that is not UTF-8
ReadFileSingleByte(path, root) ==
    LET ReadText(p, f) ==
            IF f.kind # "file"
            THEN [val |-> Chr(path) \o Lit(" is not a file", 14), reads |-> {}]
            ELSE [val |-> FileText(f), reads |-> {Read(p.parts, "concrete")}]
        Checked(r) == IF ~r.ok THEN [val |-> r.msg, reads |-> {}]
                      ELSE ReadText(r.path, Stat(r.path))
    IN  Checked(_resolve_path(path, root))

\* _read_file(path, tool_context): the text and the entries read
_read_file(path, root) ==
    LET ReadText(p, f) ==
            IF f.kind # "file"
            THEN [val |-> Chr(path) \o Lit(" is not a file", 14), reads |-> {}]
            ELSE IF ~f.utf8
            THEN [val |-> Lit("Failed to read file: ", 21)
                          \o Lit("'utf-8' codec can't decode", 70),
                  reads |-> {Read(p.parts, "concrete")}]
            ELSE [val |-> FileText(f), reads |-> {Read(p.parts, "concrete")}]
        Checked(r) == IF ~r.ok THEN [val |-> r.msg, reads |-> {}]
                      ELSE ReadText(r.path, Stat(r.path))
    IN  Checked(_resolve_path(path, root))

\* read_files with a blank line between the blocks
ReadFilesBlankLine(paths, root) ==
    LET Pieces(got) ==
            [ret |-> Ok(Join(NL \o NL, [i \in 1..Len(paths) |->
                                          Chr(paths[i]) \o NL \o NL \o got[i].val])),
             reads |-> UNION { got[i].reads : i \in 1..Len(paths) }, procs |-> {}]
    IN  Pieces([i \in 1..Len(paths) |-> _read_file(paths[i], root)])

\* read_files(paths, tool_context)
read_files(paths, root) ==
    LET Pieces(got) ==
            [ret |-> Ok(Join(NL, [i \in 1..Len(paths) |->
                                    Chr(paths[i]) \o NL \o NL \o got[i].val])),
             reads |-> UNION { got[i].reads : i \in 1..Len(paths) }, procs |-> {}]
    IN  Pieces([i \in 1..Len(paths) |-> _read_file(paths[i], root)])

\* the sort key of list_dir with the names compared as they are written
ListKeyAsWritten(e) ==
    <<IF is_dir([abs |-> TRUE, parts |-> e.path]) THEN 0 ELSE 1>>
    \o Codes(e.path[Len(e.path)])

\* key=lambda x: (not x.is_dir(), x.name.lower()), ties left in directory order
ListKey(e) ==
    <<IF is_dir([abs |-> TRUE, parts |-> e.path]) THEN 0 ELSE 1>>
    \o Codes(LowerAll(e.path[Len(e.path)])) \o <<0>> \o Codes(e.path[Len(e.path)])

\* list_dir(path, tool_context)
list_dir(path, root) ==
    LET Names(entries) ==
            IF entries = <<>> THEN Chr(path) \o Lit(" is an empty directory", 22)
            ELSE Join(NL, [i \in 1..Len(entries) |->
                             Chr(entries[i].path[Len(entries[i].path)])])
        Sorted(kids) == SortByKey(kids, [e \in kids |-> ListKey(e)])
        Checked(r) ==
            IF ~r.ok THEN [ret |-> Ok(r.msg), reads |-> {}, procs |-> {}]
            ELSE IF ~is_dir(r.path)
            THEN [ret |-> Ok(Chr(path) \o Lit(" is not a directory", 19)), reads |-> {},
                  procs |-> {}]
            ELSE [ret |-> Ok(Names(Sorted(Children(r.path.parts)))),
                  reads |-> {Read(r.path.parts, "concrete")}, procs |-> {}]
    IN  Checked(_resolve_path(path, root))

-----------------------------------------------------------------------------
(* External utilities *)

RECURSIVE GlobMatch(_, _)
\* fnmatch of the name s against pat: "*" is any run of characters, "?" any one
\* character, and "[" with no "]" after it, the only kind met here, stands for itself
GlobMatch(pat, s) ==
    IF pat = <<>> THEN s = <<>>
    ELSE IF Head(pat) = "*"
    THEN GlobMatch(Tail(pat), s) \/ (s # <<>> /\ GlobMatch(pat, Tail(s)))
    ELSE /\ s # <<>>
         /\ (Head(pat) = "?" \/ Head(pat) = Head(s))
         /\ GlobMatch(Tail(pat), Tail(s))

\* s contains sub as a run of consecutive characters
Contains(s, sub) ==
    \E i \in 0..(Len(s) - Len(sub)) : SubSeq(s, i + 1, i + Len(sub)) = sub

\* the entries at or below the directory at parts, links not followed
Below(parts) == { e \in Entries : IsPrefix(parts, e.path) }

\* the path find prints for the entry e met from the directory at parts
FindLine(parts, e) ==
    <<".">> \o (IF e.path = parts THEN <<>>
                ELSE <<"/">> \o JoinChars(SubSeq(e.path, Len(parts) + 1, Len(e.path))))

\* standard output of "find . -iname <arg>" run in the directory at parts: the
\* starting point "." is tested like every entry below it
FindStdout(parts, arg) ==
    LET Lines(out) == Flatten([i \in 1..Len(out) |-> Chr(FindLine(parts, out[i])) \o NL])
        Sorted(hit) == SortByKey(hit, [e \in hit |-> Codes(FindLine(parts, e))])
    IN  Lines(Sorted({ e \in Below(parts) :
                         GlobMatch(LowerAll(arg),
                                   LowerAll(IF e.path = parts THEN <<".">>
                                            ELSE e.path[Len(e.path)])) }))

\* the caller's pattern lands where grep reads its options
OptionLike(pattern) ==
    pattern # <<>> /\ Head(pattern).k = "chars" /\ Head(Head(pattern).s) = "-"

\* the line numbers grep -B2 -A2 prints for a file: every match and the two
\* lines on each side of it
Printed(lines, pattern) ==
    { i \in 1..Len(lines) :
        \E m \in 1..Len(lines) : pattern \in lines[m].hits /\ i - m \in -2..2 }

\* standard output of "grep -H -n -B2 -A2 <pattern> <file>": "file:n:text" for a
\* match, "file-n-text" for a line of context, "--" between groups of lines.
\* A pattern that begins with "-" is taken for grep's options (-q here), and
\* nothing is printed.
GrepStdout(parts, pattern) ==
    LET Out(lines, name, P) ==
            Flatten([i \in 1..Len(lines) |->
                IF i \notin P THEN <<>>
                ELSE (IF i - 1 \notin P /\ \E j \in P : j < i THEN Lit("--", 2) \o NL
                      ELSE <<>>)
                     \o Seg(IF pattern \in lines[i].hits THEN "match" ELSE "context", name, i,
                            Len(name) + 2 + Digits(i) + lines[i].n)
                     \o NL])
    IN  IF OptionLike(pattern) THEN <<>>
        ELSE Out(Node(parts).lines, PathStr([abs |-> TRUE, parts |-> parts]),
                 Printed(Node(parts).lines, pattern))

\* a command as handed to subprocess.run: the utility and the place it is to work on
Proc(cmd) == [util |-> cmd.util, at |-> cmd.at]

FindCmd(cwd, arg) == [util |-> "find", at |-> cwd, arg |-> arg, pattern |-> <<>>]
GrepCmd(pattern, file) == [util |-> "grep", at |-> file, arg |-> <<>>, pattern |-> pattern]

\* _run_cmd on a host where the utility is always found
RunCmdFound(cmd) ==
    IF HasNUL(cmd.arg)
    THEN Lit("Error running command: ", 23) \o Lit("embedded null byte", 18)
    ELSE Strip(IF cmd.util = "find" THEN FindStdout(cmd.at, cmd.arg)
               ELSE GrepStdout(cmd.at, cmd.pattern))

\* _run_cmd(cmd, cwd): stdout.strip(), or stderr.strip() when that is empty.  A
\* command line with a NUL in it cannot be started, and a shell that does not find
\* the utility says so on stderr.
_run_cmd(cmd) ==
    IF HasNUL(cmd.arg)
    THEN Lit("Error running command: ", 23) \o Lit("embedded null byte", 18)
    ELSE IF ~host.has_utils
    THEN Lit("/bin/sh: 1: ", 12) \o Lit(cmd.util, 4) \o Lit(": not found", 11)
    ELSE Strip(IF cmd.util = "find" THEN FindStdout(cmd.at, cmd.arg)
               ELSE GrepStdout(cmd.at, cmd.pattern))

\* find returning what the utility printed, also when that is nothing
FindOutputOnly(path, pattern, root) ==
    LET Result(output) == output
        Checked(r) ==
            IF ~r.ok THEN [ret |-> Ok(r.msg), reads |-> {}, procs |-> {}]
            ELSE IF ~is_dir(r.path)
            THEN [ret |-> Ok(Chr(path) \o Lit(" is not a directory", 19)), reads |-> {},
                  procs |-> {}]
            ELSE [ret |-> Ok(Result(_run_cmd(FindCmd(r.path.parts,
                                                     <<"*">> \o pattern \o <<"*">>)))),
                  reads |-> IF host.has_utils /\ ~HasNUL(pattern)
                            THEN { Read(e.path, "concrete") :
                                     e \in { d \in Below(r.path.parts) : d.kind = "dir" } }
                            ELSE {},
                  procs |-> {Proc(FindCmd(r.path.parts, <<>>))}]
    IN  Checked(_resolve_path(path, root))

\* find(path, pattern, tool_context)
find(path, pattern, root) ==
    LET Result(output) ==
            IF output # <<>> THEN output
            ELSE Lit("No entries matching pattern '", 29) \o Chr(pattern)
                 \o Lit("' found in ", 11) \o Chr(path)
        Checked(r) ==
            IF ~r.ok THEN [ret |-> Ok(r.msg), reads |-> {}, procs |-> {}]
            ELSE IF ~is_dir(r.path)
            THEN [ret |-> Ok(Chr(path) \o Lit(" is not a directory", 19)), reads |-> {},
                  procs |-> {}]
            ELSE [ret |-> Ok(Result(_run_cmd(FindCmd(r.path.parts,
                                                     <<"*">> \o pattern \o <<"*">>)))),
                  reads |-> IF host.has_utils /\ ~HasNUL(pattern)
                            THEN { Read(e.path, "concrete") :
                                     e \in { d \in Below(r.path.parts) : d.kind = "dir" } }
                            ELSE {},
                  procs |-> {Proc(FindCmd(r.path.parts, <<>>))}]
    IN  Checked(_resolve_path(path, root))

-----------------------------------------------------------------------------
(* grep *)

MAX_GREP_OUTPUT == 4096

IsWild(c) == c \in {"*", "?", "["}
HasWild(s) == \E i \in 1..Len(s) : IsWild(s[i])

\* "**" inside a longer component: pathlib before 3.13 rejects it with ValueError,
\* later versions read it as "*"
BadStars(name) == name # <<"*", "*">> /\ Contains(name, <<"*", "*">>)

\* list(parent.glob(name)): the matches as parent / child, parent left as written.
\* "**" alone stands for the directory and every directory below it.
Glob(parent, name) ==
    LET Under(at, out) ==
            [i \in 1..Len(out) |->
               [parent EXCEPT !.parts = @ \o SubSeq(out[i].path, Len(at.path) + 1,
                                                    Len(out[i].path))]]
        In(at) ==
            IF at.kind # "dir" THEN <<>>
            ELSE IF name = <<"*", "*">>
            THEN Under(at, SortByKey({ e \in Below(at.path) : e.kind = "dir" },
                                     [e \in Entries |-> Codes(JoinChars(e.path))]))
            ELSE Under(at, SortByKey({ e \in Children(at.path) :
                                         GlobMatch(name, e.path[Len(e.path)]) },
                                     [e \in Entries |-> Codes(e.path[Len(e.path)])]))
    IN  In(Stat(parent))

Expanded(ms) == [ok |-> TRUE, matches |-> ms, msg |-> <<>>]
GlobError(m) == [ok |-> FALSE, matches |-> <<>>, msg |-> m]

\* _expand_glob_path(pattern, tool_context): each match is tested against root as
\* glob returned it, and resolved afterwards
_expand_glob_path(pattern, root) ==
    LET Valid(matches) == SelectSeq(matches, LAMBDA m : RelativeTo(m, root))
        Resolved(valid) == Expanded([i \in 1..Len(valid) |-> Resolve(valid[i])])
        Of(p) ==
            IF BadStars(PName(p)) /\ host.strict_glob
            THEN GlobError(Lit("Invalid glob pattern: ", 22) \o Chr(pattern)
                           \o Lit(" (Invalid pattern: '**' can only be an entire path component)",
                                  61))
            ELSE Resolved(Valid(Glob(Parent(p), PName(p))))
    IN  Of(Div(root, Path(pattern)))

\* a search that passes over an entry that is not a file without a word
GrepFileSkipping(pattern, file_path, shown, via) ==
    LET Found(output) ==
            [lines |-> IF output # <<>> THEN <<output>> ELSE <<>>,
             reads |-> {Read(file_path.parts, via)},
             procs |-> {Proc(GrepCmd(pattern, file_path.parts))}]
    IN  IF ~is_file(file_path)
        THEN [lines |-> <<>>, reads |-> {}, procs |-> {}]
        ELSE Found(_run_cmd(GrepCmd(pattern, file_path.parts)))

\* what one searched file adds to result_lines
GrepFile(pattern, file_path, shown, via) ==
    LET Found(output) ==
            [lines |-> IF output # <<>> THEN <<output>> ELSE <<>>,
             reads |-> {Read(file_path.parts, via)},
             procs |-> {Proc(GrepCmd(pattern, file_path.parts))}]
    IN  IF ~is_file(file_path)
        THEN [lines |-> <<shown \o Lit(" is not a file", 14)>>, reads |-> {}, procs |-> {}]
        ELSE Found(_run_cmd(GrepCmd(pattern, file_path.parts)))

\* one turn of the loop over paths: what it appends to result_lines, the files it
\* reads, and whether it raises
GrepEntry(pattern, path_str, root) ==
    LET All(got) ==
            [ok |-> TRUE, lines |-> Flatten([i \in 1..Len(got) |-> got[i].lines]),
             reads |-> UNION { got[i].reads : i \in 1..Len(got) },
             procs |-> UNION { got[i].procs : i \in 1..Len(got) }]
        Globbed(x) ==
            IF ~x.ok THEN [ok |-> FALSE, lines |-> <<x.msg>>, reads |-> {}, procs |-> {}]
            ELSE IF x.matches = <<>>
            THEN [ok |-> TRUE,
                  lines |-> <<Chr(path_str) \o Lit(" did not match any files", 24)>>,
                  reads |-> {}, procs |-> {}]
            ELSE All([i \in 1..Len(x.matches) |->
                        GrepFile(pattern, x.matches[i], Chr(PathStr(x.matches[i])), "glob")])
        One(g) == [ok |-> TRUE, lines |-> g.lines, reads |-> g.reads, procs |-> g.procs]
        Concrete(r) ==
            IF ~r.ok
            THEN [ok |-> TRUE, lines |-> <<Chr(path_str) \o Lit(": ", 2) \o r.msg>>,
                  reads |-> {}, procs |-> {}]
            ELSE One(GrepFile(pattern, r.path, Chr(path_str), "concrete"))
    IN  IF HasWild(path_str) THEN Globbed(_expand_glob_path(path_str, root))
        ELSE Concrete(_resolve_path(path_str, root))

Truncated == NL \o Lit("[Output truncated]", 18)

\* the cap on the joined output
GrepCap(combined_output) ==
    IF StrLen(combined_output) > MAX_GREP_OUTPUT
    THEN Slice(combined_output, MAX_GREP_OUTPUT - StrLen(Truncated)) \o Truncated
    ELSE combined_output

NoMatches(pattern) == Lit("No matches found for pattern '", 30) \o pattern \o Lit("'", 1)

\* the entries of paths before the first one that raises
Done(es) ==
    LET bad == { i \in 1..Len(es) : ~es[i].ok }
    IN  IF bad = {} THEN Len(es) ELSE (CHOOSE i \in bad : \A j \in bad : i <= j) - 1

\* result_lines with the entries' lines in the reverse of the order of paths
ResultLinesReversed(es, n) == Flatten([i \in 1..n |-> es[n + 1 - i].lines])

\* result_lines after the loop over the first n entries
ResultLines(es, n) == Flatten([i \in 1..n |-> es[i].lines])

\* grep(pattern, paths, tool_context)
grep(pattern, paths, root) ==
    LET Result(combined_output) ==
            IF combined_output # <<>> THEN combined_output ELSE NoMatches(pattern)
        After(es, n) ==
            IF n < Len(es)
            THEN [ret |-> Raised(es[n + 1].lines[1]),
                  reads |-> UNION { es[i].reads : i \in 1..n },
                  procs |-> UNION { es[i].procs : i \in 1..n }]
            ELSE [ret |-> Ok(Result(GrepCap(Join(NL, ResultLines(es, n))))),
                  reads |-> UNION { es[i].reads : i \in 1..n },
                  procs |-> UNION { es[i].procs : i \in 1..n }]
        Loop(es) == After(es, Done(es))
    IN  Loop([i \in 1..Len(paths) |-> GrepEntry(pattern, paths[i], root)])

-----------------------------------------------------------------------------
(* tree *)

\* the name of the entry begins with "."
Hidden(e) == Head(e.path[Len(e.path)]) = "."

\* tree's listing with the files shown whether asked for or not
ShownWithFiles(parts, include_files) ==
    LET kids == { e \in Children(parts) : ~Hidden(e) }
    IN  SortByKey(kids, [e \in kids |-> Codes(e.path[Len(e.path)])])

\* the entries "tree [-d]" shows in the directory at parts, in its order: without
\* -a, none whose name begins with "."
Shown(parts, include_files) ==
    LET kids == { e \in Children(parts) : ~Hidden(e) /\ (include_files \/ e.kind = "dir") }
    IN  SortByKey(kids, [e \in kids |-> Codes(e.path[Len(e.path)])])

TreeLine(prefix, last, e, depth) ==
    [kind |-> "entry", prefix |-> prefix, last |-> last, path |-> e.path,
     depth |-> depth, n |-> 4 * Len(prefix) + 4 + Len(e.path[Len(e.path)])
                            + (IF e.kind = "link"
                               THEN 4 + Len(PathStr([abs |-> TRUE, parts |-> e.target]))
                               ELSE 0)]

RECURSIVE Render(_, _, _, _, _)
\* the lines "tree -L L" prints below the directory at parts, itself at depth
\* level - 1: one line per entry, led by one unit of four characters per level
\* above it, "|   " under an entry that has a later sibling and four spaces under a
\* last one, then the connector
Render(parts, prefix, level, L, include_files) ==
    LET Each(kids) ==
            Flatten([i \in 1..Len(kids) |->
                <<TreeLine(prefix, i = Len(kids), kids[i], level)>>
                \o (IF kids[i].kind = "dir" /\ level < L
                    THEN Render(kids[i].path,
                                Append(prefix, IF i = Len(kids) THEN "sp" ELSE "bar"),
                                level + 1, L, include_files)
                    ELSE <<>>)])
    IN  Each(Shown(parts, include_files))

Count(n, one, many) == 1 + (IF n = 1 THEN one ELSE many)

\* what "tree -L L [-d] p" writes: the path, the entries, an empty line, the totals
TreeStdout(p, L, include_files) ==
    LET Other(kind, n) == [kind |-> kind, prefix |-> <<>>, last |-> FALSE, path |-> <<>>,
                           depth |-> 0, n |-> n]
        Totals(nd, nf) ==
            Other("summary", Count(nd, 10, 12)
                             + (IF include_files THEN 2 + Count(nf, 5, 6) ELSE 0))
        Dirs(body) == Cardinality({ i \in 1..Len(body) : Node(body[i].path).kind = "dir" })
        Page(body) ==
            <<Other("header", Len(PathStr(p)))>> \o body
            \o <<Other("blank", 0), Totals(Dirs(body), Len(body) - Dirs(body))>>
    IN  Page(Render(p.parts, <<>>, 1, L, include_files))

\* the text of one line of tree's output
LineText(p, line) ==
    CASE line.kind = "header" -> Chr(PathStr(p))
      [] line.kind = "entry" -> Seg("entry", PathStr([abs |-> TRUE, parts |-> line.path]),
                                    line.depth, line.n)
      [] line.kind = "blank" -> <<>>
      [] OTHER -> Lit("summary", line.n)

\* len(line) - len(line.lstrip(" ")): the spaces the line starts with
LeadingSpaces(line) ==
    LET bars == { i \in 1..Len(line.prefix) : line.prefix[i] = "bar" }
    IN  4 * (IF bars = {} THEN Len(line.prefix)
             ELSE (CHOOSE i \in bars : \A j \in bars : i <= j) - 1)

\* line.lstrip() starts with one of the two connectors
StartsWithConnector(line) ==
    line.kind = "entry" /\ \A i \in 1..Len(line.prefix) : line.prefix[i] = "sp"

\* the filter of tree's lines by their indentation
KeepLine(line, max_depth) ==
    LET allowed_indent == max_depth - 2
        indent_level == LeadingSpaces(line) \div 4
    IN  IF StartsWithConnector(line) THEN indent_level <= allowed_indent ELSE TRUE

\* the cap on tree's output
TreeCap(output, max_output) ==
    IF StrLen(output) > max_output
    THEN Slice(output, max_output - StrLen(Truncated)) \o Truncated
    ELSE output

\* the text tree builds from the utility's lines, before the cap
TreeText(p, max_depth, include_files) ==
    LET Text(filtered_lines) ==
            Chr(PathStr(p)) \o NL
            \o Join(NL, [i \in 1..Len(filtered_lines) |-> LineText(p, filtered_lines[i])])
        Filter(remaining_lines) ==
            Text(SelectSeq(remaining_lines, LAMBDA l : KeepLine(l, max_depth)))
    IN  Filter(Tail(TreeStdout(p, max_depth, include_files)))

\* cmd = ["tree", "-L", str(max_depth)] (+ ["-d"]) + [str(p)]
TreeCmd(p) == [util |-> "tree", at |-> p.parts, arg |-> <<>>, pattern |-> <<>>]

\* tree with max_depth looked at before the directory
TreeDepthFirst(path, max_depth, include_files, max_output, root) ==
    LET Checked(r) ==
            IF ~r.ok THEN [ret |-> Ok(r.msg), reads |-> {}, procs |-> {}]
            ELSE IF max_depth < 1
            THEN [ret |-> Ok(Lit("max_depth must be at least 1", 28)), reads |-> {},
                  procs |-> {}]
            ELSE IF ~is_dir(r.path)
            THEN [ret |-> Ok(Chr(path) \o Lit(" is not a directory", 19)), reads |-> {},
                  procs |-> {}]
            ELSE IF ~host.has_tree
            THEN [ret |-> Ok(Lit("The 'tree' command is not available on this system.", 51)),
                  reads |-> {}, procs |-> {Proc(TreeCmd(r.path))}]
            ELSE [ret |-> Ok(TreeCap(TreeText(r.path, max_depth, include_files), max_output)),
                  reads |-> { Read(e.path, "concrete") :
                                e \in { d \in Below(r.path.parts) :
                                          d.kind = "dir"
                                          /\ Len(d.path) - Len(r.path.parts) < max_depth } },
                  procs |-> {Proc(TreeCmd(r.path))}]
    IN  Checked(_resolve_path(path, root))

\* tree with the missing utility reported by the handler of other exceptions
TreeMissingAsError(path, max_depth, include_files, max_output, root) ==
    LET Checked(r) ==
            IF ~r.ok THEN [ret |-> Ok(r.msg), reads |-> {}, procs |-> {}]
            ELSE IF ~is_dir(r.path)
            THEN [ret |-> Ok(Chr(path) \o Lit(" is not a directory", 19)), reads |-> {},
                  procs |-> {}]
            ELSE IF max_depth < 1
            THEN [ret |-> Ok(Lit("max_depth must be at least 1", 28)), reads |-> {},
                  procs |-> {}]
            ELSE IF ~host.has_tree
            THEN [ret |-> Ok(Lit("Error running tree command: ", 28)
                             \o Lit("[Errno 2] No such file or directory: 'tree'", 43)),
                  reads |-> {}, procs |-> {Proc(TreeCmd(r.path))}]
            ELSE [ret |-> Ok(TreeCap(TreeText(r.path, max_depth, include_files), max_output)),
                  reads |-> { Read(e.path, "concrete") :
                                e \in { d \in Below(r.path.parts) :
                                          d.kind = "dir"
                                          /\ Len(d.path) - Len(r.path.parts) < max_depth } },
                  procs |-> {Proc(TreeCmd(r.path))}]
    IN  Checked(_resolve_path(path, root))

\* tree(path, tool_context, max_depth, include_files, max_output)
tree(path, max_depth, include_files, max_output, root) ==
    LET Checked(r) ==
            IF ~r.ok THEN [ret |-> Ok(r.msg), reads |-> {}, procs |-> {}]
            ELSE IF ~is_dir(r.path)
            THEN [ret |-> Ok(Chr(path) \o Lit(" is not a directory", 19)), reads |-> {},
                  procs |-> {}]
            ELSE IF max_depth < 1
            THEN [ret |-> Ok(Lit("max_depth must be at least 1", 28)), reads |-> {},
                  procs |-> {}]
            ELSE IF ~host.has_tree
            THEN [ret |-> Ok(Lit("The 'tree' command is not available on this system.", 51)),
                  reads |-> {}, procs |-> {Proc(TreeCmd(r.path))}]
            ELSE [ret |-> Ok(TreeCap(TreeText(r.path, max_depth, include_files), max_output)),
                  reads |-> { Read(e.path, "concrete") :
                                e \in { d \in Below(r.path.parts) :
                                          d.kind = "dir"
                                          /\ Len(d.path) - Len(r.path.parts) < max_depth } },
                  procs |-> {Proc(TreeCmd(r.path))}]
    IN  Checked(_resolve_path(path, root))

-----------------------------------------------------------------------------
(* The session: make_runner puts the root it is given into the state, the  *)
(* callback before every tool puts WORK_DIR there, and the tools are called *)
(* one at a time with arguments of the caller's choosing.                  *)

\* the strings given as paths
PathArgs ==
    { <<".">>, <<"d">>, <<"z">>, <<"d", "/", "a", "b">>, <<"z", "/", "A", "b">>, <<"z", "/", "q">>,
      <<"d", "/", ".", ".", "/", "z", "/", "x">>,
      <<"/", "r", "/", "d", "/", "a", "b">>,
      <<".", ".", "/", "o">>, <<"/", "o">>, <<"l">>, <<"c">>, <<"a", NUL>> }

\* the strings given as glob entries
GlobArgs ==
    { <<"*">>, <<"d", "/", "*">>, <<"z", "/", "?">>, <<".", ".", "/", "*">>, <<"q", "*">>,
      <<"d", "/", "*", "*", "b">>, <<"*", "*">> }

\* the substrings given to find
FindArgs == { <<"a">>, <<"A", "b">>, <<"?">>, <<"[">>, <<>>, <<"o">>, <<".">>, <<NUL>> }

MaxDepthArg == 3
MaxOutputs == {-1, 0, 5, 19, 40, 4096}

Hosts == [has_tree : BOOLEAN, has_utils : BOOLEAN, strict_glob : BOOLEAN]

\* the strings given in lists of paths
ListArgs ==
    { <<"d", "/", "a", "b">>, <<"z", "/", "A", "b">>, <<"z", "/", "q">>, <<"d">>,
      <<".", ".", "/", "o">>, <<"l">>, <<"a", NUL>> } \cup GlobArgs

PathLists == UNION { [1..n -> ListArgs] : n \in 0..MaxPaths }

NoCall ==
    [op |-> "none", path |-> <<>>, pattern |-> <<>>, paths |-> <<>>, max_depth |-> 1,
     include_files |-> FALSE, max_output |-> 4096]

\* the value of the state of a program that is not the one running
Off == "off"

\* WORK_DIR is read from the environment when the module is loaded, and
\* make_runner(root) creates the session with state = {CTX_KEY: OxContext(root)}
Init ==
    /\ WORK_DIR \in WorkDirs
    /\ runner_root \in WorkDirs
    /\ ctx = runner_root
    /\ host \in Hosts
    /\ call = NoCall
    /\ ret = Ok(<<>>)
    /\ reads = {}
    /\ procs = {}
    /\ tool = Off
    /\ turn = Off
    /\ chat = Off

\* no call is under way
Idle == call.op = "none"

\* the call returns one of the results of R (the one result, for a function)
Returns(R) ==
    \E r \in R : ret' = r.ret /\ reads' = r.reads /\ procs' = r.procs
                 /\ UNCHANGED <<WORK_DIR, runner_root, host, tool, turn, chat>>

\* before_tool_callback(tool, args, tool_context), run before every tool
before_tool_callback == ctx' = WORK_DIR

ListDir ==
    /\ Idle
    /\ before_tool_callback
    /\ \E path \in PathArgs :
        /\ call' = [NoCall EXCEPT !.op = "list_dir", !.path = path]
        /\ Returns({list_dir(path, ctx')})

ReadFiles ==
    /\ Idle
    /\ before_tool_callback
    /\ \E paths \in PathLists :
        /\ call' = [NoCall EXCEPT !.op = "read_files", !.paths = paths]
        /\ Returns({read_files(paths, ctx')})

Find ==
    /\ Idle
    /\ before_tool_callback
    /\ \E path \in PathArgs, pattern \in FindArgs :
        /\ call' = [NoCall EXCEPT !.op = "find", !.path = path, !.pattern = pattern]
        /\ Returns({find(path, pattern, ctx')})

Grep ==
    /\ Idle
    /\ before_tool_callback
    /\ \E pattern \in Patterns, paths \in PathLists :
        /\ call' = [NoCall EXCEPT !.op = "grep", !.pattern = pattern, !.paths = paths]
        /\ Returns({grep(pattern, paths, ctx')})

Tree ==
    /\ Idle
    /\ before_tool_callback
    /\ \E path \in PathArgs, max_depth \in 0..MaxDepthArg, include_files \in BOOLEAN,
       max_output \in MaxOutputs :
        /\ call' = [NoCall EXCEPT !.op = "tree", !.path = path, !.max_depth = max_depth,
                                  !.include_files = include_files, !.max_output = max_output]
        /\ Returns({tree(path, max_depth, include_files, max_output, ctx')})

\* the caller takes the result, and the session is ready for its next call
Deliver ==
    /\ ~Idle
    /\ call' = NoCall
    /\ ret' = Ok(<<>>)
    /\ reads' = {}
    /\ procs' = {}
    /\ UNCHANGED <<WORK_DIR, runner_root, ctx, host, tool, turn, chat>>

Next == ListDir \/ ReadFiles \/ Find \/ Grep \/ Tree \/ Deliver

Spec == Init /\ [][Next]_vars

-----------------------------------------------------------------------------
(* The tools of the FileSystemAgent (src/agent.py): ls and cat, each bound *)
(* to the working directory it was constructed with.  A result is the text *)
(* returned and the entries listed or read to produce it.                  *)

session_vars == <<WORK_DIR, runner_root, ctx, host, call, ret, reads, procs>>

\* the toolbox session of src/tools.py is not the program running
SessionOff ==
    /\ WORK_DIR = Off /\ runner_root = Off /\ ctx = Off /\ host = Off
    /\ call = Off /\ ret = Off /\ reads = Off /\ procs = Off

\* the directories a FileSystemAgent is constructed with, resolved
WorkingDirectories ==
    WorkDirs \cup { [abs |-> TRUE, parts |-> << <<"r">>, <<"z">> >>],
                    [abs |-> TRUE, parts |-> << <<"r">>, <<"d">>, <<"c">> >>] }

\* the strings given as path and filename; the empty one also stands for a path
\* that was not given, which takes the same branches
ToolPaths == PathArgs \cup { <<>>, <<"d", "/", "B">>, <<"l", "/", ".", ".", "/", "r">> }

\* the value of an expression, worked out once: the element of a set of one
The(S) == CHOOSE x \in S : TRUE

\* an entry listed or read
Listing(parts) == [op |-> "iterdir", path |-> parts]
Reading(parts) == [op |-> "read_text", path |-> parts]

\* the f-string literal "Error", with what follows it
Error(rest) == Lit("Error", 5) \o rest

\* working_directory in target_path.parents or target_path == working_directory
Allowed(target_path, working_directory) ==
    IsPrefix(working_directory.parts, target_path.parts)

\* path or '.'
OrDot(path) == IF path = <<>> THEN <<".">> ELSE path

\* LsTool.execute with the security check made on the path as joined, before
\* resolve() has followed its ".." segments and links
LsUnresolved(path, working_directory) ==
    LET Item(e) ==
            Chr(e.path[Len(e.path)])
            \o (IF is_dir([abs |-> TRUE, parts |-> e.path]) THEN Lit("/", 1) ELSE <<>>)
        Sorted(kids) == SortByKey(kids, [e \in kids |-> Codes(e.path[Len(e.path)])])
        Contents(items) ==
            IF items = <<>>
            THEN Lit("Directory '", 11) \o Chr(OrDot(path)) \o Lit("' is empty.", 11)
            ELSE Lit("Contents of '", 13) \o Chr(OrDot(path)) \o Lit("':", 2) \o NL
                 \o Join(NL, [i \in 1..Len(items) |-> Item(items[i])])
        List(target_path) ==
            IF Stat(target_path).kind = "none"
            THEN [text |-> Error(Lit(": Path does not exist: ", 23) \o Chr(OrDot(path))),
                  io |-> {}]
            ELSE IF ~is_dir(target_path)
            THEN [text |-> Error(Lit(": Path is not a directory: ", 27) \o Chr(OrDot(path))),
                  io |-> {}]
            ELSE [text |-> Contents(Sorted(Children(Resolve(target_path).parts))),
                  io |-> {Listing(Resolve(target_path).parts)}]
        Checked(joined) ==
            IF ~Allowed(joined, working_directory)
            THEN [text |-> Error(Lit(": Access denied. Path '", 23) \o Chr(path)
                                 \o Lit("' is outside the allowed directory.", 35)),
                  io |-> {}]
            ELSE List(joined)
    IN  IF path = <<>> THEN List(working_directory)
        ELSE IF HasNUL(path)
        THEN [text |-> Error(Lit(" executing ls on path '", 23) \o Chr(path)
                             \o Lit("': embedded null byte", 21)),
              io |-> {}]
        ELSE Checked(Div(working_directory, Path(path)))

\* LsTool.execute(path), self._working_directory being working_directory
LsTool_execute(path, working_directory) ==
    LET Item(e) ==
            Chr(e.path[Len(e.path)])
            \o (IF is_dir([abs |-> TRUE, parts |-> e.path]) THEN Lit("/", 1) ELSE <<>>)
        Sorted(kids) == SortByKey(kids, [e \in kids |-> Codes(e.path[Len(e.path)])])
        Contents(items) ==
            IF items = <<>>
            THEN Lit("Directory '", 11) \o Chr(OrDot(path)) \o Lit("' is empty.", 11)
            ELSE Lit("Contents of '", 13) \o Chr(OrDot(path)) \o Lit("':", 2) \o NL
                 \o Join(NL, [i \in 1..Len(items) |-> Item(items[i])])
        List(target_path) ==
            IF Stat(target_path).kind = "none"
            THEN [text |-> Error(Lit(": Path does not exist: ", 23) \o Chr(OrDot(path))),
                  io |-> {}]
            ELSE IF ~is_dir(target_path)
            THEN [text |-> Error(Lit(": Path is not a directory: ", 27) \o Chr(OrDot(path))),
                  io |-> {}]
            ELSE The({ [text |-> The({ Contents(items) : items \in {Sorted(kids)} }),
                        io |-> {Listing(target_path.parts)}] :
                       kids \in {Children(target_path.parts)} })
        Checked(target_path) ==
            IF ~Allowed(target_path, working_directory)
            THEN [text |-> Error(Lit(": Access denied. Path '", 23) \o Chr(path)
                                 \o Lit("' is outside the allowed directory.", 35)),
                  io |-> {}]
            ELSE List(target_path)
    IN  IF path = <<>> THEN List(working_directory)
        ELSE IF HasNUL(path)
        THEN [text |-> Error(Lit(" executing ls on path '", 23) \o Chr(path)
                             \o Lit("': embedded null byte", 21)),
              io |-> {}]
        ELSE The({ Checked(target_path) :
                   target_path \in {Resolve(Div(working_directory, Path(path)))} })

max_len == 2000

\* CatTool.execute(filename), self._working_directory being working_directory
CatTool_execute(filename, working_directory) ==
    LET Cut(content) ==
            IF StrLen(content) > max_len
            THEN Take(content, max_len) \o NL \o Lit("... [truncated at ", 18)
                 \o Lit("2000", Digits(max_len)) \o Lit(" chars]", 7)
            ELSE content
        Cat(target_path, f) ==
            IF f.kind = "none"
            THEN [text |-> Error(Lit(": File not found: ", 18) \o Chr(filename)), io |-> {}]
            ELSE IF f.kind # "file"
            THEN [text |-> Error(Lit(": Path is not a file: ", 22) \o Chr(filename)),
                  io |-> {}]
            ELSE IF ~f.utf8
            THEN [text |-> Error(Lit(": Cannot decode file '", 22) \o Chr(filename)
                                 \o Lit("' as UTF-8 text. It might be a binary file.", 43)),
                  io |-> {Reading(target_path.parts)}]
            ELSE [text |-> Lit("Content of '", 12) \o Chr(filename) \o Lit("':", 2) \o NL
                           \o Lit("---", 3) \o NL \o Cut(FileText(f)) \o NL \o Lit("---", 3),
                  io |-> {Reading(target_path.parts)}]
        Checked(target_path) ==
            IF ~Allowed(target_path, working_directory)
            THEN [text |-> Error(Lit(": Access denied. File '", 23) \o Chr(filename)
                                 \o Lit("' is outside the allowed directory.", 35)),
                  io |-> {}]
            ELSE Cat(target_path, Stat(target_path))
    IN  IF filename = <<>>
        THEN [text |-> Error(Lit(": No filename provided for cat command.", 39)), io |-> {}]
        ELSE IF HasNUL(filename)
        THEN [text |-> Error(Lit(" executing cat on file '", 24) \o Chr(filename)
                             \o Lit("': embedded null byte", 21)),
              io |-> {}]
        ELSE The({ Checked(target_path) :
                   target_path \in {Resolve(Div(working_directory, Path(filename)))} })

\* no tool has been run since the tools were constructed
NoTool(working_directory) ==
    [working_directory |-> working_directory, name |-> "none", arg |-> <<>>,
     text |-> <<>>, io |-> {}]

\* LsTool(working_directory) and CatTool(working_directory) are constructed
ToolInit ==
    /\ SessionOff
    /\ tool \in { NoTool(d) : d \in WorkingDirectories }
    /\ turn = Off
    /\ chat = Off

Ran(name, arg, r) ==
    tool' = [tool EXCEPT !.name = name, !.arg = arg, !.text = r.text, !.io = r.io]

Ls ==
    /\ \E path \in ToolPaths : Ran("ls", path, LsTool_execute(path, tool.working_directory))
    /\ UNCHANGED <<session_vars, turn, chat>>

Cat ==
    /\ \E filename \in ToolPaths :
           Ran("cat", filename, CatTool_execute(filename, tool.working_directory))
    /\ UNCHANGED <<session_vars, turn, chat>>

ToolNext == Ls \/ Cat

ToolSpec == ToolInit /\ [][ToolNext]_vars

-----------------------------------------------------------------------------
(* One turn of the FileSystemAgent: step(user_input) is a generator, resumed *)
(* by its caller, over the chunks of the model's streamed response and,     *)
(* after a function call, of the response to the function's result.  The   *)
(* model's chunks are the environment's choice.                            *)

\* Most chunks one turn receives, over all its streams.
MaxChunks == 3

\* function_call.args once MessageToDict has made a dict of it: no key or one
NoArgs == [key |-> "none", val |-> <<>>]
Arg(key, val) == [key |-> key, val |-> val]

FunctionCall(name, args) == [name |-> name, args |-> args]

\* the function calls the model makes
Calls ==
    { FunctionCall("ls", NoArgs),
      FunctionCall("ls", Arg("path", <<"l">>)),
      FunctionCall("ls", Arg("filename", <<"d">>)),
      FunctionCall("cat", Arg("filename", <<"d", "/", "B">>)),
      FunctionCall("cat", NoArgs),
      FunctionCall("rm", Arg("path", <<"d">>)) }

\* a chunk of a streamed response: its function calls, whether it has text, and
\* its prompt_feedback ("ok": no block_reason, "blocked": a block_reason, "none":
\* no prompt_feedback at all)
Chunk(function_calls, text, prompt_feedback) ==
    [function_calls |-> function_calls, text |-> text, prompt_feedback |-> prompt_feedback]

\* the chunks of the response to the user's input
FirstChunks ==
    { Chunk(<<c>>, FALSE, "ok") : c \in Calls }
    \cup { Chunk(<<FunctionCall("ls", NoArgs),
                   FunctionCall("cat", Arg("filename", <<"d", "/", "B">>))>>, FALSE, "ok"),
           Chunk(<<FunctionCall("ls", NoArgs)>>, TRUE, "blocked"),
           Chunk(<<>>, TRUE, "ok"), Chunk(<<>>, TRUE, "blocked"), Chunk(<<>>, FALSE, "ok"),
           Chunk(<<>>, TRUE, "none") }

\* the chunks of the response to a function's result
FinalChunks ==
    { Chunk(<<>>, TRUE, "ok"), Chunk(<<>>, TRUE, "blocked"), Chunk(<<>>, FALSE, "ok"),
      Chunk(<<>>, TRUE, "none"),
      Chunk(<<FunctionCall("cat", Arg("filename", <<"d", "/", "B">>))>>, FALSE, "ok") }

\* the dictionaries step yields
Event(type, name, body) == [type |-> type, name |-> name, body |-> body]
TextEvent == Event("text", "", Lit("chunk.text", 4))
BlockedEvent == Event("error", "", Lit("Response blocked: ", 18) \o Lit("block_reason", 6))
ErrorEvent(e) ==
    Event("error", "", Lit("An error occurred during agent step: ", 37) \o Lit(e, 20))

\* a tool's name in an f-string
Name(name) == Lit(name, IF name = "cat" THEN 3 ELSE 2)

\* tool_instance.execute(**tool_args_dict): the keyword arguments fit the
\* signature of execute, or the call raises TypeError
Fits(function_call) ==
    \/ function_call.name = "ls" /\ function_call.args.key \in {"none", "path"}
    \/ function_call.name = "cat" /\ function_call.args.key = "filename"

\* the result and what was listed or read; raised tells that the call did not
\* return
Returned(r) == [raised |-> FALSE, text |-> r.text, io |-> r.io]

\* _execute_function_call with no try around tool_instance.execute
ExecuteUnguarded(function_call, working_directory) ==
    IF function_call.name \in {"ls", "cat"}
    THEN IF ~Fits(function_call)
         THEN [raised |-> TRUE, text |-> Lit("TypeError", 20), io |-> {}]
         ELSE IF function_call.name = "ls"
         THEN Returned(LsTool_execute(function_call.args.val, working_directory))
         ELSE Returned(CatTool_execute(function_call.args.val, working_directory))
    ELSE Returned([text |-> Error(Lit(": Unknown tool '", 16) \o Name(function_call.name)
                                  \o Lit("' requested.", 12)),
                   io |-> {}])

\* _execute_function_call(function_call): the result string of the Content
_execute_function_call(function_call, working_directory) ==
    IF function_call.name \in {"ls", "cat"}
    THEN IF ~Fits(function_call)
         THEN Returned([text |-> Error(Lit(" executing tool ", 16)
                                       \o Name(function_call.name)
                                       \o Lit(": ", 2) \o Lit("TypeError", 20)),
                        io |-> {}])
         ELSE IF function_call.name = "ls"
         THEN Returned(LsTool_execute(function_call.args.val, working_directory))
         ELSE Returned(CatTool_execute(function_call.args.val, working_directory))
    ELSE Returned([text |-> Error(Lit(": Unknown tool '", 16) \o Name(function_call.name)
                                  \o Lit("' requested.", 12)),
                   io |-> {}])

\* what _execute_function_call gives for each call the model makes
Executed == [fc \in Calls, d \in WorkDirs |-> _execute_function_call(fc, d)]

NoChunk == Chunk(<<>>, FALSE, "ok")

\* the agent is constructed and step has not been called; requested and
\* exceptions record what the model asked for and what was raised in the turn
NewTurn(working_directory) ==
    [working_directory |-> working_directory, pc |-> "new", left |-> 0, chunk |-> NoChunk,
     events |-> <<>>, requested |-> <<>>, exceptions |-> 0]

StepInit ==
    /\ SessionOff
    /\ tool = Off
    /\ turn \in { NewTurn(d) : d \in WorkDirs }
    /\ chat = Off

\* yield event
Yield(t, event) == [t EXCEPT !.events = Append(@, event)]

\* except Exception as e: the error is yielded and the generator ends
Except(t, e) ==
    [Yield(t, ErrorEvent(e)) EXCEPT !.pc = "done", !.exceptions = @ + 1]

\* a chunk arrives: the stream has one chunk less to give
Received(t, chunk) ==
    [t EXCEPT !.left = @ - 1,
              !.requested = @ \o [i \in 1..Len(chunk.function_calls) |->
                                    chunk.function_calls[i].name]]

\* if chunk.prompt_feedback.block_reason: of the chunk of the first stream
CheckFeedback(t) ==
    IF t.chunk.prompt_feedback = "none" THEN Except(t, "AttributeError")
    ELSE IF t.chunk.prompt_feedback = "blocked"
    THEN [Yield(t, BlockedEvent) EXCEPT !.pc = "done"]
    ELSE [t EXCEPT !.pc = "first"]

\* step(user_input) is called and run to self.chat.send_message(user_input, ...)
SendMessage ==
    /\ turn.pc \in {"new", "done"}
    /\ \E sent \in BOOLEAN :
        LET t == [NewTurn(turn.working_directory) EXCEPT !.left = MaxChunks]
        IN  turn' = IF sent THEN [t EXCEPT !.pc = "first"] ELSE Except(t, "send_message")
    /\ UNCHANGED <<session_vars, tool, chat>>

\* for chunk in response_stream: up to the next yield of the chunk
FirstStream ==
    /\ turn.pc = "first"
    /\ \/ turn' = [turn EXCEPT !.pc = "done"]
       \/ turn' = Except(turn, "response_stream")
       \/ /\ turn.left > 0
          /\ \E chunk \in FirstChunks :
              LET t == [Received(turn, chunk) EXCEPT !.chunk = chunk]
                  fc == chunk.function_calls[1]
              IN  turn' = IF chunk.function_calls # <<>>
                          THEN [Yield(t, Event("function_call", fc.name, fc.args))
                                  EXCEPT !.pc = "call"]
                          ELSE IF chunk.text THEN CheckFeedback(Yield(t, TextEvent))
                          ELSE CheckFeedback(t)
    /\ UNCHANGED <<session_vars, tool, chat>>

\* resumed after the function_call: the function is executed and its result yielded
ExecuteFunction ==
    /\ turn.pc = "call"
    /\ LET fc == turn.chunk.function_calls[1]
           Yielded(r) ==
               IF r.raised THEN Except(turn, "execute")
               ELSE [Yield(turn, Event("function_result", fc.name, r.text))
                       EXCEPT !.pc = "result"]
       IN  turn' = Yielded(Executed[fc, turn.working_directory])
    /\ UNCHANGED <<session_vars, tool, chat>>

\* resumed after the function_result: self.chat.send_message(function_response_content, ...)
SendResult ==
    /\ turn.pc = "result"
    /\ \E sent \in BOOLEAN :
        turn' = IF sent THEN [turn EXCEPT !.pc = "second"] ELSE Except(turn, "send_message")
    /\ UNCHANGED <<session_vars, tool, chat>>

\* for final_chunk in response_stream_after_func: up to the next yield; when the
\* loop is left, the chunk of the first stream has its feedback checked
SecondStream ==
    /\ turn.pc = "second"
    /\ \/ turn' = CheckFeedback(turn)
       \/ turn' = Except(turn, "response_stream_after_func")
       \/ /\ turn.left > 0
          /\ \E final_chunk \in FinalChunks :
              LET t == Received(turn, final_chunk)
                  Feedback(u) ==
                      IF final_chunk.prompt_feedback = "none" THEN Except(u, "AttributeError")
                      ELSE IF final_chunk.prompt_feedback = "blocked"
                      THEN CheckFeedback(Yield(u, BlockedEvent))
                      ELSE u
              IN  turn' = Feedback(IF final_chunk.text THEN Yield(t, TextEvent) ELSE t)
    /\ UNCHANGED <<session_vars, tool, chat>>

\* the caller resumes the generator
Resume == FirstStream \/ ExecuteFunction \/ SendResult \/ SecondStream

StepNext == SendMessage \/ FirstStream \/ ExecuteFunction \/ SendResult \/ SecondStream

StepSpec == StepInit /\ [][StepNext]_vars

\* the caller iterates over the generator until it ends
StepFair == StepSpec /\ WF_vars(Resume)

-----------------------------------------------------------------------------
(* The chat loop of main (src/main.py): the user's input is read, and what *)
(* is neither a word that ends the session nor blank is sent to the agent, *)
(* whose messages are displayed as they come.                              *)

\* Most inputs one session reads.
MaxInputs == 3

\* what get_user_input returns
Inputs ==
    { <<>>, <<" ">>, <<" ", "\t">>, <<"e", "x", "i", "t">>, <<"E", "X", "I", "T">>,
      <<"q", "u", "i", "t">>, <<"Q", "u", "i", "t">>, <<" ", "e", "x", "i", "t">>,
      <<"l", "s">>, <<"e", "x", "i", "t", " ", "?">> }

\* the roles of the messages the agent yields
Roles == {"user", "tool_call", "tool_result", "agent", "debug"}

IsSpace(c) == c \in {" ", "\t", "\n"}

RECURSIVE lstrip(_)
lstrip(s) == IF s # <<>> /\ IsSpace(Head(s)) THEN lstrip(Tail(s)) ELSE s

RECURSIVE rstrip(_)
rstrip(s) == IF s # <<>> /\ IsSpace(s[Len(s)]) THEN rstrip(SubSeq(s, 1, Len(s) - 1)) ELSE s

\* user_input.strip()
strip(s) == rstrip(lstrip(s))

\* ["exit", "quit"]
ExitWords == { <<"e", "x", "i", "t">>, <<"q", "u", "i", "t">> }

\* user_input in ["exit", "quit"], the letters taken as typed
ExitAsTyped(user_input) == user_input \in ExitWords

\* user_input.lower() in ["exit", "quit"]
IsExit(user_input) == LowerAll(user_input) \in ExitWords

\* display_welcome has been called and the loop is about to read its first
\* input; last is what the loop did last, shown the role it displayed last
MainInit ==
    /\ SessionOff
    /\ tool = Off
    /\ turn = Off
    /\ chat = [pc |-> "prompt", user_input |-> <<>>, read |-> 0, sent |-> <<>>,
               last |-> "display_welcome", shown |-> "none"]

\* user_input = get_user_input() returns, up to the call of send_message
GetUserInput ==
    /\ chat.pc = "prompt"
    /\ chat.read < MaxInputs
    /\ \E user_input \in Inputs :
        LET c == [chat EXCEPT !.user_input = user_input, !.read = @ + 1]
        IN  chat' = IF IsExit(user_input)
                    THEN [c EXCEPT !.pc = "ended", !.last = "exit"]
                    ELSE IF strip(user_input) = <<>>
                    THEN [c EXCEPT !.last = "continue"]
                    ELSE [c EXCEPT !.pc = "turn", !.sent = Append(@, user_input),
                                   !.last = "send_message", !.shown = "none"]
    /\ UNCHANGED <<session_vars, tool, turn>>

\* the body of for role, content in code_agent.send_message(user_input)
DisplayMessage ==
    /\ chat.pc = "turn"
    /\ \E role \in Roles :
        chat' = [chat EXCEPT !.shown = IF role \in {"user", "tool_call", "tool_result", "agent"}
                                        THEN role ELSE "error",
                             !.last = "display_message"]
    /\ UNCHANGED <<session_vars, tool, turn>>

\* the agent has no more messages: the loop goes back to its top
TurnEnds ==
    /\ chat.pc = "turn"
    /\ chat' = [chat EXCEPT !.pc = "prompt", !.last = "answered"]
    /\ UNCHANGED <<session_vars, tool, turn>>

\* except (KeyboardInterrupt, EOFError), raised in get_user_input or in the turn
Interrupted ==
    /\ chat.pc \in {"prompt", "turn"}
    /\ \E e \in {"KeyboardInterrupt", "EOFError"} :
        chat' = [chat EXCEPT !.pc = "ended", !.last = e]
    /\ UNCHANGED <<session_vars, tool, turn>>

\* except Exception, raised in get_user_input or in the turn
Failed ==
    /\ chat.pc \in {"prompt", "turn"}
    /\ chat' = [chat EXCEPT !.pc = "prompt",
                            !.last = IF chat.pc = "turn" THEN "Exception in turn"
                                     ELSE "Exception in input"]
    /\ UNCHANGED <<session_vars, tool, turn>>

MainNext == GetUserInput \/ DisplayMessage \/ TurnEnds \/ Interrupted \/ Failed

MainSpec == MainInit /\ [][MainNext]_vars

-----------------------------------------------------------------------------
(* Properties *)

\* the entry at parts lies, once links and ".." are followed, at root or below it
InRoot(parts) == IsPrefix(ctx.parts, Walk(<<>>, parts))

\* the path the call was given resolves to a directory inside root
OnDirectory == _resolve_path(call.path, ctx).ok /\ is_dir(_resolve_path(call.path, ctx).path)

IsTruncated(x) == EndsWith(x, Truncated)

\* C1: whatever path string it is given (relative, absolute, with ".." or through
\* a link), _resolve_path returns root or a path below root, or raises ValueError;
\* so whatever list_dir, read_files, find, tree and grep (for its concrete
\* entries) read lies inside root.
C1_ResolvedInsideRoot ==
    /\ \A s \in {call.path} \cup { call.paths[i] : i \in 1..Len(call.paths) } :
         LET Inside(r) == r.ok => InRoot(r.path.parts)
         IN  Inside(_resolve_path(s, ctx))
    /\ \A rd \in reads : rd.via = "concrete" => InRoot(rd.path)

\* read_files is given "../o" and "d/ab": only /r/d/ab is read
C1_Witness ==
    /\ call.op = "read_files"
    /\ call.paths = << <<".", ".", "/", "o">>, <<"d", "/", "a", "b">> >>
    /\ reads = {Read(<< <<"r">>, <<"d">>, <<"a", "b">> >>, "concrete")}
    /\ \E i \in 1..Len(ret.val) : ret.val[i].k = " is not relative to the root: "

\* C2: every file grep searches on behalf of a glob entry lies, after ".." and
\* links are followed, inside root.
C2_GlobReadsInsideRoot == \A rd \in reads : rd.via = "glob" => InRoot(rd.path)

\* the text grep joined from result_lines in the call under way, before the cap
GrepCombined ==
    Join(NL, Flatten([i \in 1..Len(call.paths) |->
                        GrepEntry(call.pattern, call.paths[i], ctx).lines]))

Markers(x) == Cardinality({ i \in 1..Len(x) : x[i].k = "[Output truncated]" })

\* C3: whatever the pattern and the paths, the string grep returns has at most
\* 4096 characters, the marker included.
C3_GrepAtMost4096 == (call.op = "grep" /\ ret.ok) => StrLen(ret.val) <= MAX_GREP_OUTPUT

\* What the cap does give: when some entry contributes text, the string grep
\* returns has at most 4096 characters: a joined output longer than 4096 is cut to
\* 4096 - 19 characters and ends with the marker, once, and a shorter one is
\* returned as it is.  When no entry contributes text the result is the no-match
\* message, of 31 + len(pattern) characters, which the cap does not see.
GrepCapOnOutput ==
    (call.op = "grep" /\ ret.ok) =>
        /\ GrepCombined # <<>> => StrLen(ret.val) <= MAX_GREP_OUTPUT
        /\ StrLen(GrepCombined) > MAX_GREP_OUTPUT =>
             /\ ret.val = Take(GrepCombined, MAX_GREP_OUTPUT - 19) \o Truncated
             /\ StrLen(ret.val) = MAX_GREP_OUTPUT
             /\ IsTruncated(ret.val)
             /\ Markers(ret.val) = 1
        /\ (GrepCombined # <<>> /\ StrLen(GrepCombined) <= MAX_GREP_OUTPUT) =>
             ret.val = GrepCombined
        /\ GrepCombined = <<>> => StrLen(ret.val) = 31 + StrLen(call.pattern)

\* grep has cut an output of more than 4096 characters
GrepCapReached ==
    /\ call.op = "grep" /\ ret.ok
    /\ StrLen(GrepCombined) > MAX_GREP_OUTPUT
    /\ StrLen(ret.val) = MAX_GREP_OUTPUT
    /\ IsTruncated(ret.val)

\* C4: on a directory, with max_depth >= 1 and any max_output, the string tree
\* returns has at most max_output characters.
C4_TreeWithinMaxOutput ==
    (call.op = "tree" /\ OnDirectory /\ call.max_depth >= 1 /\ host.has_tree /\ ret.ok)
        => StrLen(ret.val) <= call.max_output

\* the entries named by the lines of a tree
Listed(x) == { x[i].s : i \in { j \in 1..Len(x) : x[j].k = "entry" } }

\* the entries at most depth levels below the directory at parts that tree shows
Within(parts, depth, include_files) ==
    { PathStr([abs |-> TRUE, parts |-> e.path]) :
        e \in { d \in Below(parts) :
                  /\ Len(d.path) - Len(parts) \in 1..depth
                  /\ (include_files \/ d.kind = "dir") } }

\* C5: with max_depth >= 1, tree lists exactly the entries at most max_depth - 1
\* levels below the starting directory: none with max_depth = 1, the children and
\* no grandchild with max_depth = 2, under whichever child the grandchild lies.
C5_TreeListsToDepth ==
    (call.op = "tree" /\ OnDirectory /\ call.max_depth >= 1 /\ host.has_tree /\ ret.ok
       /\ ~IsTruncated(ret.val))
        => Listed(ret.val) = Within(_resolve_path(call.path, ctx).path.parts,
                                    call.max_depth - 1, call.include_files)

\* C6: every tool returns a string, whatever its arguments: it never raises.
C6_ToolsNeverRaise == ret.ok

\* the paths find is to print for the directory at parts: the entries below it
\* whose name contains sub, letter case aside
Containing(parts, sub) ==
    { FindLine(parts, e) :
        e \in { d \in Below(parts) \ {Node(parts)} :
                  Contains(LowerAll(d.path[Len(d.path)]), LowerAll(sub)) } }

\* x is the lines of L, one per line, in some order
IsLinesOf(x, L) ==
    /\ { x[i].s : i \in { j \in 1..Len(x) : x[j].k = "chars" } } = L
    /\ Len(x) = 2 * Cardinality(L) - 1
    /\ \A i \in 1..Len(x) : x[i].k = (IF i % 2 = 1 THEN "chars" ELSE "NL")

\* C7: on a directory inside root, find prints exactly the entries below it whose
\* name contains the pattern as a literal substring, letter case aside, also when
\* the pattern holds "*", "?" or "[".
C7_FindLiteralSubstring ==
    (call.op = "find" /\ OnDirectory /\ host.has_utils /\ ~HasNUL(call.pattern) /\ ret.ok) =>
        LET L == Containing(_resolve_path(call.path, ctx).path.parts, call.pattern)
        IN  IF L = {} THEN \E i \in 1..Len(ret.val) : ret.val[i].k = "No entries matching pattern '"
            ELSE IsLinesOf(ret.val, L)

\* line i of the file called name is in x, as a match or as context
Emitted(x, name, i) ==
    \E j \in 1..Len(x) : x[j].k \in {"match", "context"} /\ x[j].s = name /\ x[j].i = i

\* C8: for every file grep searches and every line of it that matches the
\* pattern, the output, when not cut, holds that line with the file's path and its
\* number, and the lines up to two before and two after it; it holds no line
\* farther than two lines from every match.
C8_GrepMatchesWithContext ==
    (call.op = "grep" /\ ret.ok /\ host.has_utils /\ ~IsTruncated(ret.val)) =>
        \A rd \in reads :
            LET lines == Node(rd.path).lines
                name == PathStr([abs |-> TRUE, parts |-> rd.path])
                Hit(m) == call.pattern \in lines[m].hits
            IN  /\ \A m \in 1..Len(lines) :
                     Hit(m) =>
                        /\ \E j \in 1..Len(ret.val) :
                              ret.val[j] = [k |-> "match", s |-> name, i |-> m,
                                            n |-> Len(name) + 2 + Digits(m) + lines[m].n]
                        /\ \A i \in 1..Len(lines) :
                              i - m \in -2..2 => Emitted(ret.val, name, i)
                /\ \A i \in 1..Len(lines) :
                     Emitted(ret.val, name, i)
                        => \E m \in 1..Len(lines) : Hit(m) /\ i - m \in -2..2

\* no line that grep prints for the call under way is a match
NoMatchPrinted == \A i \in 1..Len(GrepCombined) : GrepCombined[i].k # "match"

\* C9 as stated: when no file produced a match, also when some entries are not
\* files, lie outside root or are globs that match nothing, grep returns exactly
\* the no-match message.
C9_NoMatchMessage ==
    (call.op = "grep" /\ ret.ok /\ host.has_utils /\ NoMatchPrinted)
        => ret.val = NoMatches(call.pattern)

\* the search of the file at p prints nothing
Quiet(p) == is_file(p) /\ _run_cmd(GrepCmd(call.pattern, p.parts)) = <<>>

\* the entry adds nothing to result_lines: a path to a file inside root whose search
\* prints nothing, or a glob whose matches are such files, and there is one
Silent(path_str) ==
    LET QuietMatches(x) ==
            /\ x.ok
            /\ x.matches # <<>>
            /\ \A i \in 1..Len(x.matches) : Quiet(x.matches[i])
        QuietFile(r) == r.ok /\ Quiet(r.path)
    IN  IF HasWild(path_str) THEN QuietMatches(_expand_glob_path(path_str, ctx))
        ELSE QuietFile(_resolve_path(path_str, ctx))

\* C9, amended: grep returns exactly the no-match message when, and only when,
\* no entry of paths adds anything to result_lines: the list is empty, or each
\* entry is a file inside root (or a glob matching only such files) whose search
\* prints nothing.  An entry that is not a file, lies outside root or is a glob
\* that matches nothing adds its own message, and that text is returned.
C9_NoMatchIffSilent ==
    (call.op = "grep" /\ ret.ok) =>
        (ret.val = NoMatches(call.pattern)
           <=> \A i \in 1..Len(call.paths) : Silent(call.paths[i]))

\* grep searched a file, found nothing, and says so
C9_Witness ==
    /\ call.op = "grep"
    /\ call.paths # <<>>
    /\ reads # {}
    /\ ret.val = NoMatches(call.pattern)

\* what read_files is to say of one path: the text of the file, or why not
Block(path) ==
    LET At(t) ==
            IF HasNUL(path) THEN Lit("Invalid path: ", 14) \o Chr(path)
            ELSE IF ~IsPrefix(ctx.parts, t)
            THEN Lit("Path ", 5) \o Chr(path) \o Lit(" is not relative to the root: ", 30)
                 \o Chr(PathStr(ctx))
            ELSE IF ~Exists(t) \/ Node(t).kind # "file"
            THEN Chr(path) \o Lit(" is not a file", 14)
            ELSE IF ~Node(t).utf8
            THEN Lit("Failed to read file: ", 21) \o Lit("'utf-8' codec can't decode", 70)
            ELSE FileText(Node(t))
    IN  Chr(path) \o NL \o NL \o At(Walk(<<>>, Div(ctx, Path(path)).parts))

\* C10: the result of read_files is one block per element of paths, in the order
\* given and with repeats, each the path, two newlines and the file's text or the
\* entry's message, the blocks joined by one newline; an entry that fails leaves
\* the other blocks as they would be alone.
C10_ReadFilesBlocks ==
    call.op = "read_files" =>
        /\ ret.ok
        /\ ret.val = Join(NL, [i \in 1..Len(call.paths) |-> Block(call.paths[i])])

\* read_files is given a directory and then a file: the file's block is the one it
\* has when read alone
C10_Witness ==
    /\ call.op = "read_files"
    /\ call.paths = << <<"d">>, <<"d", "/", "a", "b">> >>
    /\ reads = {Read(<< <<"r">>, <<"d">>, <<"a", "b">> >>, "concrete")}
    /\ ret.val = Chr(<<"d">>) \o NL \o NL \o Chr(<<"d">>) \o Lit(" is not a file", 14)
                 \o NL \o read_files(<< <<"d", "/", "a", "b">> >>, ctx).ret.val

\* the text of the file at p is part of x
HasTextOf(x, p) == \E j \in 1..Len(x) : x[j].k = "line" /\ x[j].s = PathStr(p)

\* the number of segments of x of kind k
Occurrences(x, k) == Cardinality({ j \in 1..Len(x) : x[j].k = k })

\* the entries of the call under way that name a file inside root that is not UTF-8
Undecodable ==
    { i \in 1..Len(call.paths) :
        /\ _resolve_path(call.paths[i], ctx).ok
        /\ is_file(_resolve_path(call.paths[i], ctx).path)
        /\ ~Stat(_resolve_path(call.paths[i], ctx).path).utf8 }

\* C11 as stated: a file read by read_files that is not valid UTF-8 is decoded with
\* a permissive single-byte encoding, which accepts every byte, so the text of
\* every file read is part of the result.
C11_FallbackDecodes ==
    call.op = "read_files" =>
        \A rd \in reads : HasTextOf(ret.val, [abs |-> TRUE, parts |-> rd.path])

\* C11, amended: read_files reads a file as UTF-8 only.  For an entry whose file
\* is not valid UTF-8 the result holds "Failed to read file: " and the decoder's
\* error, once per such entry, and none of that file's text; no other decoding is
\* tried.
C11_Utf8Only ==
    call.op = "read_files" =>
        /\ Occurrences(ret.val, "Failed to read file: ") = Cardinality(Undecodable)
        /\ \A i \in Undecodable :
              ~HasTextOf(ret.val, _resolve_path(call.paths[i], ctx).path)

\* read_files is given a file that is not UTF-8 and one that is
C11_Witness ==
    /\ call.op = "read_files"
    /\ call.paths = << <<"z", "/", "q">>, <<"d", "/", "a", "b">> >>
    /\ Undecodable = {1}
    /\ Occurrences(ret.val, "Failed to read file: ") = 1
    /\ HasTextOf(ret.val, [abs |-> TRUE, parts |-> << <<"r">>, <<"d">>, <<"a", "b">> >>])

\* the call under way is a tree of a directory inside root, run by the utility
\* and returned whole
TreeShown ==
    /\ call.op = "tree" /\ OnDirectory /\ call.max_depth >= 1 /\ host.has_tree
    /\ ret.ok /\ ~IsTruncated(ret.val)

\* the entries named by the lines of a tree
ListedEntries(x) ==
    { e \in Entries : PathStr([abs |-> TRUE, parts |-> e.path]) \in Listed(x) }

\* the entries at most depth levels below the directory at parts that have no
\* name beginning with "." on the way down to them
VisibleWithin(parts, depth) ==
    { e \in Below(parts) :
        /\ Len(e.path) - Len(parts) \in 1..depth
        /\ \A i \in (Len(parts) + 1)..Len(e.path) : Head(e.path[i]) # "." }

\* C12 as stated: with include_files=False no entry line of tree names an entry
\* that is not a directory, and with include_files=True every file and directory
\* within the depth limit is listed.
C12_TreeFilesOption ==
    TreeShown =>
        IF call.include_files
        THEN Within(_resolve_path(call.path, ctx).path.parts, call.max_depth - 1, TRUE)
                \subseteq Listed(ret.val)
        ELSE \A e \in ListedEntries(ret.val) : e.kind = "dir"

\* C12, amended: with include_files=False no entry line of tree names an entry
\* that is not a directory, and with include_files=True every file and directory
\* within the depth limit is listed, except those whose name, or the name of a
\* directory above them, begins with ".": tree runs without -a and leaves hidden
\* entries out.
C12_TreeFilesOptionVisible ==
    TreeShown =>
        IF call.include_files
        THEN /\ VisibleWithin(_resolve_path(call.path, ctx).path.parts, call.max_depth - 1)
                  \subseteq ListedEntries(ret.val)
             /\ \A e \in ListedEntries(ret.val) : ~Hidden(e)
        ELSE \A e \in ListedEntries(ret.val) : e.kind = "dir"

\* tree lists the files of /r/z but not its hidden one, and tree -d has listed
\* directories only
C12_Witness ==
    /\ TreeShown
    /\ call.include_files
    /\ call.max_depth = 2
    /\ _resolve_path(call.path, ctx).path.parts = << <<"r">>, <<"z">> >>
    /\ ListedEntries(ret.val) = Children(<< <<"r">>, <<"z">> >>)
                                  \ {Node(<< <<"r">>, <<"z">>, <<".", "h">> >>)}

\* C13: tree looks at its arguments before it runs anything.  For a path inside
\* root that is not a directory it returns "<path> is not a directory", whatever
\* max_depth is; for a directory and max_depth < 1 it returns "max_depth must be
\* at least 1".  In both cases it hands no command to subprocess.run and does not
\* raise.
C13_TreeValidatesFirst ==
    (call.op = "tree" /\ _resolve_path(call.path, ctx).ok) =>
        /\ ~OnDirectory =>
              /\ ret = Ok(Chr(call.path) \o Lit(" is not a directory", 19))
              /\ procs = {}
        /\ (OnDirectory /\ call.max_depth < 1) =>
              /\ ret = Ok(Lit("max_depth must be at least 1", 28))
              /\ procs = {}
        /\ (OnDirectory /\ call.max_depth >= 1) => procs # {}

\* tree is given a file and max_depth = 0, and says that the file is not a directory
C13_Witness ==
    /\ call.op = "tree"
    /\ call.path = <<"d", "/", "a", "b">>
    /\ is_file(_resolve_path(call.path, ctx).path)
    /\ call.max_depth = 0
    /\ ret = Ok(Chr(call.path) \o Lit(" is not a directory", 19))
    /\ procs = {}
\* the lines of x, a text of lines of characters
LinesOf(x) == [i \in 1..((Len(x) + 1) \div 2) |-> x[2 * i - 1].s]

\* C14: for a directory that has children, list_dir returns the names of exactly
\* its immediate children, each once and one per line, every directory before
\* every entry that is not one and, among the directories and among the others,
\* in the order of the names in lower case.
C14_ListDirOrder ==
    (call.op = "list_dir" /\ OnDirectory
       /\ Children(_resolve_path(call.path, ctx).path.parts) # {}) =>
        LET at == _resolve_path(call.path, ctx).path
            names == LinesOf(ret.val)
            IsDir(name) == is_dir(Div(at, Path(name)))
        IN  /\ ret.ok
            /\ \A j \in 1..Len(ret.val) : ret.val[j].k = (IF j % 2 = 1 THEN "chars" ELSE "NL")
            /\ Len(names) = Cardinality(Children(at.parts))
            /\ { names[i] : i \in 1..Len(names) }
                 = { e.path[Len(e.path)] : e \in Children(at.parts) }
            /\ \A i, j \in 1..Len(names) :
                 i < j =>
                    /\ ~(IsDir(names[j]) /\ ~IsDir(names[i]))
                    /\ IsDir(names[i]) = IsDir(names[j])
                         => SeqLess(Codes(LowerAll(names[i])), Codes(LowerAll(names[j])))

\* list_dir has listed /r/d: the directory c, then ab before B
C14_Witness ==
    /\ call.op = "list_dir"
    /\ OnDirectory
    /\ _resolve_path(call.path, ctx).path.parts = << <<"r">>, <<"d">> >>
    /\ LinesOf(ret.val) = << <<"c">>, <<"a", "b">>, <<"B">> >>
\* C15: of the files a glob entry expands to, grep's output, when not cut, names
\* exactly those that have a line matching the pattern: a file without one adds
\* nothing, a file with one is always there.
C15_GlobOnlyMatchingFiles ==
    (call.op = "grep" /\ ret.ok /\ host.has_utils /\ ~IsTruncated(ret.val)) =>
        \A rd \in { r \in reads : r.via = "glob" } :
            (\E m \in 1..Len(Node(rd.path).lines) : call.pattern \in Node(rd.path).lines[m].hits)
              <=> (\E j \in 1..Len(ret.val) :
                      /\ ret.val[j].k \in {"match", "context"}
                      /\ ret.val[j].s = PathStr([abs |-> TRUE, parts |-> rd.path]))
\* what grep produces for each entry of the call under way, its lines joined
EntryTexts ==
    [i \in 1..Len(call.paths) |-> Join(NL, GrepEntry(call.pattern, call.paths[i], ctx).lines)]

RECURSIVE EntryStart(_, _)
\* the number of segments of the result that come before the text of entry i
EntryStart(texts, i) ==
    IF i = 1 THEN 0
    ELSE EntryStart(texts, i - 1)
         + (IF texts[i - 1] = <<>> THEN 0 ELSE Len(texts[i - 1]) + 1)

\* the texts stand in x one after the other, a newline between them
InOrder(texts, x) ==
    \A i \in 1..Len(texts) :
        texts[i] # <<>> =>
            /\ SubSeq(x, EntryStart(texts, i) + 1, EntryStart(texts, i) + Len(texts[i]))
                 = texts[i]
            /\ EntryStart(texts, i) > 0 => IsNL(x[EntryStart(texts, i)])

\* C16: what grep produces for the entries of paths stands in the result in the
\* order of paths: the text for paths[i] begins where the texts for the entries
\* before it, each followed by a newline, end, for concrete and glob entries alike.
C16_GrepKeepsOrder ==
    (call.op = "grep" /\ ret.ok /\ ~IsTruncated(ret.val)) => InOrder(EntryTexts, ret.val)

\* grep is given a directory and then a glob with matches: the message for the
\* directory comes first, the lines of the glob's files after it
C16_Witness ==
    /\ call.op = "grep" /\ ret.ok /\ ~IsTruncated(ret.val)
    /\ call.pattern = PatA
    /\ call.paths = << <<"d">>, <<"d", "/", "*">> >>
    /\ EntryTexts[1] = Chr(<<"d">>) \o Lit(" is not a file", 14)
    /\ EntryStart(EntryTexts, 2) = 3
    /\ \E j \in 4..Len(ret.val) : ret.val[j].k = "match"
C18_RootKept == ctx = runner_root
\* the call under way is a find in a directory inside root on a host without the
\* find utility
FindWithoutUtility ==
    call.op = "find" /\ OnDirectory /\ ~host.has_utils /\ ~HasNUL(call.pattern)

\* C19 as stated: on a host without the find utility, find returns the matches it
\* would return with it, or the no-entries message when there are none, and not
\* the shell's error text.
C19_WalkFallback ==
    FindWithoutUtility =>
        LET Result(out) ==
                IF out # <<>> THEN out
                ELSE Lit("No entries matching pattern '", 29) \o Chr(call.pattern)
                     \o Lit("' found in ", 11) \o Chr(call.path)
        IN  ret.val = Result(Strip(FindStdout(_resolve_path(call.path, ctx).path.parts,
                                              <<"*">> \o call.pattern \o <<"*">>)))

\* C19, amended: on a host without the find utility, find returns what the shell
\* wrote on its error stream ("find: not found"), whatever entries the directory
\* holds: it walks nothing itself, names no entry and does not raise.
C19_ShellErrorReturned ==
    FindWithoutUtility =>
        /\ ret = Ok(Lit("/bin/sh: 1: ", 12) \o Lit("find", 4) \o Lit(": not found", 11))
        /\ reads = {}
        /\ \A j \in 1..Len(ret.val) : ret.val[j].k # "chars"

\* find is asked for "a" where the name ab holds it, on a host without the utility
C19_Witness ==
    /\ FindWithoutUtility
    /\ call.pattern = <<"a">>
    /\ Containing(_resolve_path(call.path, ctx).path.parts, call.pattern) # {}
    /\ ret.val = Lit("/bin/sh: 1: ", 12) \o Lit("find", 4) \o Lit(": not found", 11)
\* C20: on a host without the tree executable, tree on a directory inside root
\* with max_depth >= 1 returns exactly "The 'tree' command is not available on
\* this system.", whatever max_output is, and does not raise.
C20_TreeNotAvailable ==
    (call.op = "tree" /\ OnDirectory /\ call.max_depth >= 1 /\ ~host.has_tree) =>
        /\ ret = Ok(Lit("The 'tree' command is not available on this system.", 51))
        /\ reads = {}

\* tree is called on a directory, with a max_output shorter than the message, on a
\* host without the executable
C20_Witness ==
    /\ call.op = "tree" /\ OnDirectory /\ ~host.has_tree
    /\ call.max_depth = 2
    /\ call.max_output = 5
    /\ procs # {}
    /\ StrLen(ret.val) = 51

-----------------------------------------------------------------------------
(* The tools of the FileSystemAgent *)

\* the text is an "Error: Access denied" message
AccessDenied(text) ==
    /\ Len(text) >= 2
    /\ text[1].k = "Error"
    /\ text[2].k \in {": Access denied. Path '", ": Access denied. File '"}

\* the argument names something, and what it names once ".." and links are
\* followed is neither the working directory nor below it
ResolvesOutside(arg, working_directory) ==
    /\ arg # <<>>
    /\ ~HasNUL(arg)
    /\ ~IsPrefix(working_directory.parts, Walk(<<>>, Div(working_directory, Path(arg)).parts))

\* C22: ls and cat list and read nothing outside the working directory, and a
\* path that resolves outside it gets "Error: Access denied" with no listing and
\* no read
C22_NoAccessOutside ==
    /\ \A a \in tool.io : IsPrefix(tool.working_directory.parts, a.path)
    /\ tool.name \in {"ls", "cat"} /\ ResolvesOutside(tool.arg, tool.working_directory)
       => AccessDenied(tool.text) /\ tool.io = {}

\* ls of the link l, which leads out of /r, is refused
C22_Witness ==
    /\ tool.name = "ls"
    /\ tool.arg = <<"l">>
    /\ tool.working_directory.parts = << <<"r">> >>
    /\ AccessDenied(tool.text)
    /\ tool.io = {}

-----------------------------------------------------------------------------
(* A turn of the FileSystemAgent *)

\* the names of the events of one type, in the order they were yielded
NamesOf(type) ==
    LET of == SelectSeq(turn.events, LAMBDA e : e.type = type)
    IN  [i \in 1..Len(of) |-> of[i].name]

\* event number i is a function_call with its function_result, of the same
\* name, right after it; the last event may be a function_call only while the
\* generator is suspended at it
AnsweredAt(i) ==
    IF i < Len(turn.events)
    THEN /\ turn.events[i + 1].type = "function_result"
         /\ turn.events[i + 1].name = turn.events[i].name
    ELSE turn.pc = "call"

\* C21: every function call the model requests in a turn is yielded as a
\* function_call followed at once by the function_result of the same name, one
\* result to each call
C21_EveryCallPaired ==
    /\ \A i \in 1..Len(turn.events) :
           turn.events[i].type = "function_call" => AnsweredAt(i)
    /\ \A i \in 1..Len(turn.events) :
           turn.events[i].type = "function_result"
           => i > 1 /\ turn.events[i - 1].type = "function_call"
    /\ turn.pc = "done" => NamesOf("function_call") = turn.requested

\* the text starts with "Error"
StartsWithError(text) == text # <<>> /\ text[1].k = "Error" /\ text[1].n = 5

\* messages of the handler that closes step
IsStepError(e) ==
    /\ e.type = "error"
    /\ e.body # <<>>
    /\ e.body[1].k = "An error occurred during agent step: "

\* the call names no tool of tools_map, or execute does not take its arguments
UnknownOrThrows(e) == ~Fits(FunctionCall(e.name, e.body))

C23_Safe ==
    /\ turn.pc \in {"new", "first", "call", "result", "second", "done"}
    /\ \A i \in 1..Len(turn.events) :
           /\ turn.events[i].type = "function_call"
           /\ UnknownOrThrows(turn.events[i])
           /\ i < Len(turn.events)
           => /\ turn.events[i + 1].type = "function_result"
              /\ StartsWithError(turn.events[i + 1].body)
    /\ turn.exceptions <= 1
    /\ turn.exceptions = 1
       => /\ turn.pc = "done"
          /\ IsStepError(turn.events[Len(turn.events)])
          /\ Len(SelectSeq(turn.events, IsStepError)) = 1
    /\ turn.exceptions = 0 => Len(SelectSeq(turn.events, IsStepError)) = 0

\* the generator has been started and has not ended
Running == turn.pc \in {"first", "call", "result", "second"}

\* C23: step never raises and, resumed by its caller, ends; an unknown tool and
\* a tool that throws give a function_result that starts with "Error"; an
\* exception gives one error event, the last of the turn
C23_StepEnds == []C23_Safe /\ (Running ~> turn.pc = "done")

\* rm is not a tool: its result is an error text, and then sending the result
\* to the model raised
C23_Witness ==
    /\ turn.pc = "done"
    /\ turn.exceptions = 1
    /\ Len(turn.events) = 3
    /\ turn.events[1].type = "function_call" /\ turn.events[1].name = "rm"
    /\ turn.events[2].type = "function_result" /\ StartsWithError(turn.events[2].body)
    /\ IsStepError(turn.events[3])

-----------------------------------------------------------------------------
(* The chat loop *)

\* blank or made of white space only
IsBlank(s) == \A i \in 1..Len(s) : IsSpace(s[i])

\* the capital of a letter of the two words
Capital(c) ==
    CASE c = "e" -> "E" [] c = "i" -> "I" [] c = "q" -> "Q" [] c = "t" -> "T"
      [] c = "u" -> "U" [] c = "x" -> "X"

\* the word exit or quit, in any letter case
IsExitWord(s) ==
    /\ Len(s) = 4
    /\ \E w \in ExitWords : \A i \in 1..4 : s[i] \in {w[i], Capital(w[i])}

C24_Loop ==
    /\ \A i \in 1..Len(chat.sent) : ~IsBlank(chat.sent[i]) /\ ~IsExitWord(chat.sent[i])
    /\ chat.read > 0 /\ IsExitWord(chat.user_input) => chat.pc = "ended"
    /\ chat.last \in {"KeyboardInterrupt", "EOFError"} => chat.pc = "ended"
    /\ chat.last = "Exception in turn" => chat.pc = "prompt"

\* C24: blank input and the words exit and quit, in any letter case, are never
\* sent to the agent; after exit, quit or an interrupt the loop has ended and
\* reads and sends nothing more; after another exception in a turn the loop is
\* back at its prompt
C24_ChatLoop == []C24_Loop /\ [][chat.pc = "ended" => chat' = chat]_vars

\* ls was sent and one input skipped as blank before EXIT was typed: the loop ended
C24_Witness ==
    /\ chat.pc = "ended"
    /\ chat.user_input = <<"E", "X", "I", "T">>
    /\ chat.read = 3
    /\ chat.sent = << <<"l", "s">> >>
    /\ chat.last = "exit"

====
